---- MODULE Spec2Model ----
(***************************************************************************)
(* A model of ClaudeService's puter-chat-completion `complete` method      *)
(* (message adaptation, token budget check, non-streaming and streaming    *)
(* dispatch with the background transcoder task), of the provider it talks *)
(* to, and of FunctionCalling's normalize_tools_object and                 *)
(* make_claude_tools.                                                      *)
(***************************************************************************)
EXTENDS Integers, Sequences, FiniteSets, TLC

VARIABLES
    messages,           \* the caller's message objects, mutated in place by complete
    input_messages,     \* the message list as the caller passed it (history)
    stream,             \* the `stream` argument of complete
    provider,           \* what the provider will do for this call (environment)
    adapted_messages,   \* references (indices into messages) pushed by the loop
    system_prompts,     \* content parts of system messages
    previous_was_user,  \* the loop's flag
    idx,                \* number of messages the for-of loop has consumed
    pc,                 \* control position of complete
    token_count,        \* text.length / 4
    result,             \* what the caller of complete observes
    requests,           \* provider requests issued so far
    usage_promise,      \* the TeePromise
    passthrough,        \* the PassThrough output stream
    task,               \* control position of the background async task
    counts,             \* the background task's usage totals
    consumed,           \* provider events the background task has taken
    delivered,          \* lines a consumer has read from the output stream
    calls,              \* how many times the caller has called complete
    previous,           \* what the previous call of complete computed (history)
    tools,              \* the tools array given to normalize_tools_object
    input_tools,        \* the tools array as the caller passed it (history)
    ti,                 \* the loop variable i of normalize_tools_object
    tpc,                \* control position of the FunctionCalling caller
    passes,             \* calls of normalize_tools_object so far
    first_result,       \* what the first normalize_tools_object returned (history)
    claude_tools        \* what make_claude_tools returned

vars == <<messages, input_messages, stream, provider, adapted_messages,
          system_prompts, previous_was_user, idx, pc, token_count, result,
          requests, usage_promise, passthrough, task, counts, consumed,
          delivered, calls, previous, tools, input_tools, ti, tpc, passes,
          first_result, claude_tools>>

\* the state of the FunctionCalling caller
toolVars == <<tools, input_tools, ti, tpc, passes, first_result, claude_tools>>

\* what no step of one call of complete touches
otherVars == <<delivered, calls, previous, toolVars>>

----------------------------------------------------------------------------
(* Bounds of the model.                                                    *)

\* longest caller message list explored with every role and content shape
MaxMsgs == 3
\* longest message list explored around the token budget boundary
MaxBudgetMsgs == 2
\* how far around the budget boundary the long texts reach, in characters
BudgetSlack == 1
\* longest provider event sequence
MaxEvents == 3

(* Program constants.                                                      *)
MAX_CLAUDE_INPUT_TOKENS == 10000
CharsPerToken == 4

----------------------------------------------------------------------------
(* Values.  A string that needs no JSON escaping is a record of a name and *)
(* its length in characters; JSON.stringify puts two quotes around it.     *)

Str(id, n) == [id |-> id, len |-> n]
NoStr == Str("", 0)

TextPart(t) == [type |-> "text", text |-> t]

\* message.content as the caller may pass it: a bare string, one content
\* part object, or an array of content parts
StringContent(t) == [kind |-> "string", str |-> t, parts |-> <<>>]
ObjectContent(p) == [kind |-> "object", str |-> NoStr, parts |-> <<p>>]
ArrayContent(ps) == [kind |-> "array", str |-> NoStr, parts |-> ps]

\* a missing role is the empty string (falsy)
NoRole == ""
Roles == {"user", "assistant", "system", NoRole}

Message(r, c) == [role |-> r, content |-> c]

SeqsUpTo(S, n) == UNION {[1..k -> S] : k \in 0..n}

RECURSIVE Flatten(_)
Flatten(ss) == IF ss = <<>> THEN <<>> ELSE Head(ss) \o Flatten(Tail(ss))

RECURSIVE SumSeq(_)
SumSeq(ns) == IF ns = <<>> THEN 0 ELSE Head(ns) + SumSeq(Tail(ns))

----------------------------------------------------------------------------
(* The message adaptation loop.                                            *)

\* lines 63-68: a bare string becomes one text content part
WrapString(c) ==
    IF c.kind = "string"
    THEN ObjectContent(TextPart(c.str))
    ELSE c

\* lines 69-71: anything that is not an array is wrapped in an array
WrapArray(c) ==
    IF c.kind # "array"
    THEN ArrayContent(c.parts)
    ELSE c

\* line 72
DefaultRole(r) == IF r = NoRole THEN "user" ELSE r

\* lines 63-72: what the loop does to the message object before looking at it
Normalized(m) == Message(DefaultRole(m.role), WrapArray(WrapString(m.content)))

\* line 73
ShouldMerge_never(role, prev) == FALSE
ShouldMerge(role, prev) == role = "user" /\ prev

\* line 80
IsSystem_never(role) == FALSE
IsSystem(role) == role = "system"

\* line 81
PushAll_reversed(list, parts) == parts \o list
PushAll(list, parts) == list \o parts

\* lines 85-87
FlagAfterPush(role, prev) == IF role = "user" THEN TRUE ELSE prev

\* the entry of adapted_messages at position k: the caller's object itself
Entry(k) == messages[adapted_messages[k]]

\* lines 62-88, one iteration of the for-of loop
AdaptStep ==
    /\ pc = "adapt"
    /\ idx < Len(messages)
    /\ LET i == idx + 1
           message == Normalized(messages[i])
       IN  IF ShouldMerge(message.role, previous_was_user)
           THEN LET last == adapted_messages[Len(adapted_messages)]
                    last_msg == messages[last]
                IN  /\ messages' =
                          [messages EXCEPT
                              ![i] = message,
                              ![last] = Message(last_msg.role,
                                  ArrayContent(PushAll(last_msg.content.parts,
                                                       message.content.parts)))]
                    /\ UNCHANGED <<adapted_messages, system_prompts,
                                   previous_was_user>>
           ELSE IF IsSystem(message.role)
           THEN /\ messages' = [messages EXCEPT ![i] = message]
                /\ system_prompts' = PushAll(system_prompts, message.content.parts)
                /\ UNCHANGED <<adapted_messages, previous_was_user>>
           ELSE /\ messages' = [messages EXCEPT ![i] = message]
                /\ adapted_messages' = Append(adapted_messages, i)
                /\ previous_was_user' =
                       FlagAfterPush(message.role, previous_was_user)
                /\ UNCHANGED system_prompts
    /\ idx' = idx + 1
    /\ UNCHANGED <<input_messages, stream, provider, pc, token_count, result,
                   requests, usage_promise, passthrough, task, counts, consumed>>
    /\ UNCHANGED otherVars

\* line 88: the loop is exhausted
AdaptDone ==
    /\ pc = "adapt"
    /\ idx = Len(messages)
    /\ pc' = "check"
    /\ UNCHANGED <<messages, input_messages, stream, provider, adapted_messages,
                   system_prompts, previous_was_user, idx, token_count, result,
                   requests, usage_promise, passthrough, task, counts, consumed>>
    /\ UNCHANGED otherVars

----------------------------------------------------------------------------
(* JSON.stringify of the adapted payload, by its length in characters.     *)

\* "...": the characters and two quotes
JSONLenStr(t) == t.len + 2

\* {"type":"text","text":"..."}
JSONLenPart(p) == 23 + JSONLenStr(p.text)

\* [e1,e2,...]: two brackets, the elements, a comma between neighbours
JSONLenArray(lens) ==
    2 + SumSeq(lens) + (IF Len(lens) = 0 THEN 0 ELSE Len(lens) - 1)

JSONLenParts(ps) == JSONLenArray([k \in 1..Len(ps) |-> JSONLenPart(ps[k])])

\* {"role":"...","content":[...]} (the same length in either key order)
JSONLenMessage(m) == 22 + Len(m.role) + JSONLenParts(m.content.parts)

\* lines 91-92: JSON.stringify(adapted_messages) + JSON.stringify(system_prompts)
TextLength ==
    JSONLenArray([k \in 1..Len(adapted_messages) |-> JSONLenMessage(Entry(k))])
    + JSONLenParts(system_prompts)

\* a non-negative rational with denominator den, as JavaScript's / yields it
\* exactly for these magnitudes
Quotient(n, d) == [whole |-> n \div d, rem |-> n % d, den |-> d]
NoCount == Quotient(0, CharsPerToken)

\* line 95: text.length / 4
Divide_floor(n, d) == [whole |-> n \div d, rem |-> 0, den |-> d]
Divide(n, d) == Quotient(n, d)

\* line 98: token_count > MAX_CLAUDE_INPUT_TOKENS
Exceeds_orEqual(q, limit) == q.whole * q.den + q.rem >= limit * q.den
Exceeds(q, limit) == q.whole * q.den + q.rem > limit * q.den

NoError == [code |-> "", input_tokens |-> NoCount, max_tokens |-> 0]
NoUsage == [present |-> FALSE, input_tokens |-> 0, output_tokens |-> 0]
Usage(i, o) == [present |-> TRUE, input_tokens |-> i, output_tokens |-> o]

Pending == [kind |-> "pending", error |-> NoError, usage |-> NoUsage]

\* where control goes after the check of line 98
AfterCheck_fallthrough(exceeded) == "dispatch"
AfterCheck(exceeded) == IF exceeded THEN "thrown" ELSE "dispatch"

\* lines 90-103: the estimate and the budget check
TokenCheck ==
    /\ pc = "check"
    /\ LET count == Divide(TextLength, CharsPerToken)
           exceeded == Exceeds(count, MAX_CLAUDE_INPUT_TOKENS)
       IN  /\ token_count' = count
           /\ pc' = AfterCheck(exceeded)
           /\ result' =
                  IF exceeded
                  THEN [kind |-> "threw",
                        error |-> [code |-> "max_tokens_exceeded",
                                   input_tokens |-> count,
                                   max_tokens |-> MAX_CLAUDE_INPUT_TOKENS],
                        usage |-> NoUsage]
                  ELSE result
    /\ UNCHANGED <<messages, input_messages, stream, provider, adapted_messages,
                   system_prompts, previous_was_user, idx, requests,
                   usage_promise, passthrough, task, counts, consumed>>
    /\ UNCHANGED otherVars

----------------------------------------------------------------------------
(* The non-streaming path.                                                 *)

ProviderError == [code |-> "provider_error", input_tokens |-> NoCount,
                  max_tokens |-> 0]

\* line 152: messages.create is called and complete awaits it
CreateRequest ==
    /\ pc = "dispatch"
    /\ ~stream
    /\ requests' = Append(requests, "messages.create")
    /\ pc' = "await_create"
    /\ UNCHANGED <<messages, input_messages, stream, provider, adapted_messages,
                   system_prompts, previous_was_user, idx, token_count, result,
                   usage_promise, passthrough, task, counts, consumed>>
    /\ UNCHANGED otherVars

\* lines 152-163: the provider answers and complete returns the shaped result
CreateResolves ==
    /\ pc = "await_create"
    /\ provider.request_ok
    /\ result' = [kind |-> "message", error |-> NoError,
                  usage |-> provider.msg_usage]
    /\ pc' = "returned"
    /\ UNCHANGED <<messages, input_messages, stream, provider, adapted_messages,
                   system_prompts, previous_was_user, idx, token_count,
                   requests, usage_promise, passthrough, task, counts, consumed>>
    /\ UNCHANGED otherVars

\* line 152: the awaited request rejects; nothing catches it
CreateRejects ==
    /\ pc = "await_create"
    /\ ~provider.request_ok
    /\ result' = [kind |-> "rejected", error |-> ProviderError,
                  usage |-> NoUsage]
    /\ pc' = "rejected"
    /\ UNCHANGED <<messages, input_messages, stream, provider, adapted_messages,
                   system_prompts, previous_was_user, idx, token_count,
                   requests, usage_promise, passthrough, task, counts, consumed>>
    /\ UNCHANGED otherVars

----------------------------------------------------------------------------
(* Provider events.                                                        *)

NoDelta == [type |-> "", text |-> ""]
Event(t, d, u, mu) == [type |-> t, delta |-> d, usage |-> u, message_usage |-> mu]

MessageStart == Event("message_start", NoDelta, NoUsage, Usage(2, 1))
TextDelta(t) ==
    Event("content_block_delta", [type |-> "text_delta", text |-> t],
          NoUsage, NoUsage)
JsonDelta ==
    Event("content_block_delta", [type |-> "input_json_delta", text |-> ""],
          NoUsage, NoUsage)
\* usage with output_tokens only: input_tokens is undefined
MessageDelta == Event("message_delta", NoDelta, Usage(0, 3), NoUsage)
MessageStop == Event("message_stop", NoDelta, NoUsage, NoUsage)

Events == {MessageStart, TextDelta("Hel"), TextDelta("lo"), JsonDelta,
           MessageDelta, MessageStop}

\* lines 124-127: (event?.usage ?? event?.message?.usage)
UsageOf(event) ==
    IF event.usage.present THEN event.usage ELSE event.message_usage

\* lines 129-130: if ( n ) counts.n += n
Accumulate_overwrite(total, n) == IF n # 0 THEN n ELSE total
Accumulate(total, n) == IF n # 0 THEN total + n ELSE total

\* lines 132-135: the events that are not skipped
IsTextDelta_anyDelta(event) == event.type = "content_block_delta"
IsTextDelta(event) ==
    ~(event.type # "content_block_delta" \/ event.delta.type # "text_delta")

\* lines 136-139: JSON.stringify({ text }) + '\n', for a text needing no escape
Line(text) == "{\"text\":\"" \o text \o "\"}" \o "\n"

\* lines 139: stream.write
Write_first(lines, str) == <<str>> \o lines
Write(lines, str) == Append(lines, str)

----------------------------------------------------------------------------
(* The streaming path.                                                     *)

NoPromise == [state |-> "none", value |-> [input_tokens |-> 0, output_tokens |-> 0],
              resolves |-> 0]
NoStream == [state |-> "none", lines |-> <<>>]
ZeroCounts == [input_tokens |-> 0, output_tokens |-> 0]

\* lines 105-121, up to the first await of the async function: the promise
\* and the stream are created and messages.stream is called
StreamSetup ==
    /\ pc = "dispatch"
    /\ stream
    /\ usage_promise' = [NoPromise EXCEPT !.state = "pending"]
    /\ passthrough' = [NoStream EXCEPT !.state = "open"]
    /\ requests' = Append(requests, "messages.stream")
    /\ task' = "await_stream"
    /\ pc' = "stream_started"
    /\ UNCHANGED <<messages, input_messages, stream, provider, adapted_messages,
                   system_prompts, previous_was_user, idx, token_count, result,
                   counts, consumed>>
    /\ UNCHANGED otherVars

\* line 143: the async function is called and not awaited
MayReturn_awaited(t) == t \in {"done", "failed"}
MayReturn(t) == TRUE

\* lines 145-149
ReturnHandle ==
    /\ pc = "stream_started"
    /\ MayReturn(task)
    /\ result' = [kind |-> "handle", error |-> NoError, usage |-> NoUsage]
    /\ pc' = "returned"
    /\ UNCHANGED <<messages, input_messages, stream, provider, adapted_messages,
                   system_prompts, previous_was_user, idx, token_count,
                   requests, usage_promise, passthrough, task, counts, consumed>>
    /\ UNCHANGED otherVars

\* a continuation of the background task runs only once the synchronous run
\* of complete that started it has returned
MayResume_anytime(p) == TRUE
MayResume(p) == p = "returned"

\* lines 115-122: the awaited messages.stream yields the completion
TaskStreamOpened ==
    /\ task = "await_stream"
    /\ MayResume(pc)
    /\ provider.request_ok
    /\ counts' = ZeroCounts
    /\ task' = "loop"
    /\ UNCHANGED <<messages, input_messages, stream, provider, adapted_messages,
                   system_prompts, previous_was_user, idx, pc, token_count,
                   result, requests, usage_promise, passthrough, consumed>>
    /\ UNCHANGED otherVars

\* line 115: the awaited messages.stream rejects; the async function has no
\* catch and nobody holds its promise
TaskStreamRejected ==
    /\ task = "await_stream"
    /\ MayResume(pc)
    /\ ~provider.request_ok
    /\ task' = "failed"
    /\ UNCHANGED <<messages, input_messages, stream, provider, adapted_messages,
                   system_prompts, previous_was_user, idx, pc, token_count,
                   result, requests, usage_promise, passthrough, counts,
                   consumed>>
    /\ UNCHANGED otherVars

\* line 139: the value stream.write returns is ignored, so the loop goes on
\* however many written lines nobody has read yet
MayWriteMore_awaitDrain(buffered) == buffered = 0
MayWriteMore(buffered) == TRUE

\* lines 123-140: one iteration of the for-await loop
TaskEvent ==
    /\ task = "loop"
    /\ MayResume(pc)
    /\ consumed < Len(provider.events)
    /\ MayWriteMore(Len(passthrough.lines) - delivered)
    /\ LET event == provider.events[consumed + 1]
           input_tokens == UsageOf(event).input_tokens
           output_tokens == UsageOf(event).output_tokens
       IN  /\ counts' =
                  [input_tokens |-> Accumulate(counts.input_tokens, input_tokens),
                   output_tokens |-> Accumulate(counts.output_tokens, output_tokens)]
           /\ passthrough' =
                  IF IsTextDelta(event)
                  THEN [passthrough EXCEPT
                           !.lines = Write(@, Line(event.delta.text))]
                  ELSE passthrough
    /\ consumed' = consumed + 1
    /\ UNCHANGED <<messages, input_messages, stream, provider, adapted_messages,
                   system_prompts, previous_was_user, idx, pc, token_count,
                   result, requests, usage_promise, task>>
    /\ UNCHANGED otherVars

\* line 123: the event sequence raises instead of ending
TaskIterationFails ==
    /\ task = "loop"
    /\ MayResume(pc)
    /\ consumed = Len(provider.events)
    /\ provider.ending = "error"
    /\ task' = "failed"
    /\ UNCHANGED <<messages, input_messages, stream, provider, adapted_messages,
                   system_prompts, previous_was_user, idx, pc, token_count,
                   result, requests, usage_promise, passthrough, counts,
                   consumed>>
    /\ UNCHANGED otherVars

\* line 123: whether the loop may be left
LoopExhausted_early(n, events) == n >= 1 \/ n = Len(events)
LoopExhausted(n, events) == n = Len(events)

\* line 141: what stream.end() does to the output stream
End_forgotten(s) == s
End(s) == [s EXCEPT !.state = "ended"]

\* line 141: stream.end()
TaskEnd ==
    /\ task = "loop"
    /\ MayResume(pc)
    /\ LoopExhausted(consumed, provider.events)
    /\ provider.ending = "done"
    /\ passthrough' = End(passthrough)
    /\ task' = "ended"
    /\ UNCHANGED <<messages, input_messages, stream, provider, adapted_messages,
                   system_prompts, previous_was_user, idx, pc, token_count,
                   result, requests, usage_promise, counts, consumed>>
    /\ UNCHANGED otherVars

\* line 142: usage_promise.resolve(counts)
TaskResolve ==
    /\ task = "ended"
    /\ usage_promise' = [state |-> "resolved", value |-> counts,
                         resolves |-> usage_promise.resolves + 1]
    /\ task' = "done"
    /\ UNCHANGED <<messages, input_messages, stream, provider, adapted_messages,
                   system_prompts, previous_was_user, idx, pc, token_count,
                   result, requests, passthrough, counts, consumed>>
    /\ UNCHANGED otherVars

----------------------------------------------------------------------------
(* The calls explored.                                                     *)

Hi == Str("hi", 2)

\* one content of each shape the caller may pass, with distinct parts
SmallContents ==
    {StringContent(Hi),
     ObjectContent(TextPart(Str("p", 1))),
     ArrayContent(<<TextPart(Str("a", 1)), TextPart(Str("b", 1))>>)}

SmallMessages == {Message(r, c) : r \in Roles, c \in SmallContents}

\* scenario 1 of the specification: [{role:"user", content:"hi"}]
ScenarioMessages == <<Message("user", StringContent(Hi))>>

\* a text so long that the one user message carrying it serializes, with the
\* empty system prompt list, to exactly 4 x limit + d characters
Long(d) ==
    Str("long",
        CharsPerToken * MAX_CLAUDE_INPUT_TOKENS + d
        - JSONLenArray(<<JSONLenMessage(
              Message("user", ArrayContent(<<TextPart(NoStr)>>)))>>)
        - JSONLenParts(<<>>))

BudgetMessages ==
    {Message(r, StringContent(Long(d))) :
        r \in {"user", "system"}, d \in (0 - BudgetSlack)..BudgetSlack}
    \cup {Message("user", StringContent(Hi))}

\* scenario 5 of the specification
ScenarioProvider ==
    [request_ok |-> TRUE,
     events |-> <<TextDelta("Hel"), TextDelta("lo"), MessageDelta>>,
     ending |-> "done",
     msg_usage |-> Usage(2, 3)]

\* the request itself fails
FailingProvider ==
    [request_ok |-> FALSE, events |-> <<>>, ending |-> "error",
     msg_usage |-> NoUsage]

Providers ==
    {[request_ok |-> TRUE, events |-> es, ending |-> e, msg_usage |-> Usage(2, 3)] :
        es \in SeqsUpTo(Events, MaxEvents), e \in {"done", "error"}}
    \cup {FailingProvider}

\* nothing is known of an earlier call
NoPrevious == [adapted_messages |-> <<>>, system_prompts |-> <<>>,
               token_count |-> NoCount]

\* lines 57-61: the locals of complete on entry, and nothing started yet
CallEntry ==
    /\ adapted_messages = <<>>
    /\ system_prompts = <<>>
    /\ previous_was_user = FALSE
    /\ idx = 0
    /\ pc = "adapt"
    /\ token_count = NoCount
    /\ result = Pending
    /\ requests = <<>>
    /\ usage_promise = NoPromise
    /\ passthrough = NoStream
    /\ task = "none"
    /\ counts = ZeroCounts
    /\ consumed = 0
    /\ delivered = 0

\* normalize_tools_object is not in use
ToolsIdle ==
    /\ tools = <<>>
    /\ input_tools = <<>>
    /\ ti = 0
    /\ tpc = "idle"
    /\ passes = 0
    /\ first_result = <<>>
    /\ claude_tools = <<>>

\* line 57: complete is entered
Init ==
    /\ \/ /\ input_messages \in SeqsUpTo(SmallMessages, MaxMsgs)
          /\ provider = ScenarioProvider
       \/ /\ input_messages \in SeqsUpTo(BudgetMessages, MaxBudgetMsgs)
          /\ provider = ScenarioProvider
       \/ /\ input_messages = ScenarioMessages
          /\ provider \in Providers
    /\ stream \in BOOLEAN
    /\ messages = input_messages
    /\ CallEntry
    /\ calls = 1
    /\ previous = NoPrevious
    /\ ToolsIdle

Next ==
    \/ AdaptStep
    \/ AdaptDone
    \/ TokenCheck
    \/ CreateRequest
    \/ CreateResolves
    \/ CreateRejects
    \/ StreamSetup
    \/ ReturnHandle
    \/ TaskStreamOpened
    \/ TaskStreamRejected
    \/ TaskEvent
    \/ TaskIterationFails
    \/ TaskEnd
    \/ TaskResolve

Spec == Init /\ [][Next]_vars

----------------------------------------------------------------------------
(* A streamed session with a consumer of the output stream.                *)

\* lines 108-113: whoever holds the returned stream reads one buffered line
ConsumerRead ==
    /\ passthrough.state # "none"
    /\ delivered < Len(passthrough.lines)
    /\ delivered' = delivered + 1
    /\ UNCHANGED <<messages, input_messages, stream, provider, adapted_messages,
                   system_prompts, previous_was_user, idx, pc, token_count,
                   result, requests, usage_promise, passthrough, task, counts,
                   consumed, calls, previous, toolVars>>

\* line 57: complete is entered with the scenario message list, whatever the
\* provider will do
InitStreams ==
    /\ input_messages = ScenarioMessages
    /\ provider \in Providers
    /\ stream \in BOOLEAN
    /\ messages = input_messages
    /\ CallEntry
    /\ calls = 1
    /\ previous = NoPrevious
    /\ ToolsIdle

FairNext ==
    \/ Next
    \/ ConsumerRead

\* the event loop runs every continuation that is ready, and a provider
\* whose event sequence is finite delivers it; the consumer may never read
FairSpec ==
    /\ InitStreams
    /\ [][FairNext]_vars
    /\ WF_vars(ReturnHandle)
    /\ WF_vars(TaskStreamOpened)
    /\ WF_vars(TaskEvent)
    /\ WF_vars(TaskEnd)
    /\ WF_vars(TaskResolve)

----------------------------------------------------------------------------
(* The caller calls complete again with the message list it holds.         *)

\* how many calls of complete the caller makes with one list
MaxCalls == 2
\* longest message list the caller passes twice
MaxRepeatMsgs == 2

\* the event sequence raises after its last event
RaisingProvider == [ScenarioProvider EXCEPT !.ending = "error"]

\* line 57: the earlier call is over and complete is entered again with the
\* same list object
CallAgain ==
    /\ calls < MaxCalls
    /\ pc \in {"thrown", "returned", "rejected"}
    /\ task \in {"none", "done", "failed"}
    /\ calls' = calls + 1
    /\ previous' =
           [adapted_messages |->
                [k \in 1..Len(adapted_messages) |-> Entry(k)],
            system_prompts |-> system_prompts,
            token_count |-> token_count]
    /\ input_messages' = messages
    /\ adapted_messages' = <<>>
    /\ system_prompts' = <<>>
    /\ previous_was_user' = FALSE
    /\ idx' = 0
    /\ pc' = "adapt"
    /\ token_count' = NoCount
    /\ result' = Pending
    /\ requests' = <<>>
    /\ usage_promise' = NoPromise
    /\ passthrough' = NoStream
    /\ task' = "none"
    /\ counts' = ZeroCounts
    /\ consumed' = 0
    /\ delivered' = 0
    /\ UNCHANGED <<messages, stream, provider, toolVars>>

InitRepeat ==
    /\ input_messages \in SeqsUpTo(SmallMessages, MaxRepeatMsgs)
    /\ provider \in {ScenarioProvider, FailingProvider, RaisingProvider}
    /\ stream \in BOOLEAN
    /\ messages = input_messages
    /\ CallEntry
    /\ calls = 1
    /\ previous = NoPrevious
    /\ ToolsIdle

NextRepeat ==
    \/ Next
    \/ CallAgain

SpecRepeat == InitRepeat /\ [][NextRepeat]_vars

----------------------------------------------------------------------------
(* FunctionCalling: normalize_tools_object and make_claude_tools.          *)
(* A field of an object is a sequence: empty when the field is absent      *)
(* (undefined), else holding its value.  A JSON schema is named by a       *)
(* string.                                                                 *)

\* longest tools array
MaxTools == 2
\* how many times the caller normalizes one tools array
MaxPasses == 2

Absent == <<>>
Some(v) == <<v>>

\* JavaScript truthiness of a string-valued field: undefined and '' are falsy
Truthy(field) == field # Absent /\ field[1] # ""

\* lines 27-29: { type: 'object' }
DefaultSchema == "{type:'object'}"
SchemaA == "{type:'object',properties:{a}}"
SchemaB == "{type:'object',properties:{b}}"

\* a function descriptor: the fields normalize_function reads
Fn(name, description, parameters, input_schema) ==
    [name |-> name, description |-> description, parameters |-> parameters,
     input_schema |-> input_schema]

\* a tool as the caller may pass it
Tool(type, function, fn) ==
    [type |-> type, function |-> function, name |-> fn.name,
     description |-> fn.description, parameters |-> fn.parameters,
     input_schema |-> fn.input_schema]

NoFn == Fn(Absent, Absent, Absent, Absent)

\* lines 21-40
normalize_function_schemaFirst(fn) ==
    LET parameters == IF Truthy(fn.input_schema) THEN fn.input_schema
                      ELSE fn.parameters
    IN  Fn(IF Truthy(fn.name) THEN fn.name ELSE Absent,
           IF Truthy(fn.description) THEN fn.description ELSE Absent,
           IF parameters = Absent THEN Some(DefaultSchema) ELSE parameters,
           Absent)
normalize_function(fn) ==
    LET parameters == IF Truthy(fn.parameters) THEN fn.parameters
                      ELSE fn.input_schema
    IN  Fn(IF Truthy(fn.name) THEN fn.name ELSE Absent,
           IF Truthy(fn.description) THEN fn.description ELSE Absent,
           IF parameters = Absent THEN Some(DefaultSchema) ELSE parameters,
           Absent)

\* lines 42-47: whether the tool's nested function is what gets normalized
UsesNested_never(tool) == FALSE
UsesNested(tool) ==
    /\ ~Truthy(tool.input_schema)
    /\ tool.type = Some("function")

\* line 50 with lines 23-25: reading a field of an undefined tool.function
\* raises a TypeError
Raises(tool) == UsesNested(tool) /\ tool.function = Absent

\* lines 42-57: the replacement of one tool
NormalizedTool(tool) ==
    Tool(Some("function"),
         Some(normalize_function(IF UsesNested(tool)
                                 THEN tool.function[1] ELSE tool)),
         NoFn)

\* lines 84-91: one entry of make_claude_tools
ClaudeTool_noDescription(tool) ==
    [name |-> tool.function[1].name,
     description |-> Absent,
     input_schema |-> tool.function[1].parameters]
ClaudeTool(tool) ==
    [name |-> tool.function[1].name,
     description |-> tool.function[1].description,
     input_schema |-> tool.function[1].parameters]

\* lines 82-92, for a tools array
make_claude_tools(ts) == [k \in 1..Len(ts) |-> ClaudeTool(ts[k])]

\* lines 17-59: one iteration of the loop
NormalizeStep ==
    /\ tpc = "normalize"
    /\ ti < Len(tools)
    /\ ~Raises(tools[ti + 1])
    /\ tools' = [tools EXCEPT ![ti + 1] = NormalizedTool(@)]
    /\ ti' = ti + 1
    /\ UNCHANGED <<input_tools, tpc, passes, first_result, claude_tools>>
    /\ UNCHANGED <<messages, input_messages, stream, provider, adapted_messages,
                   system_prompts, previous_was_user, idx, pc, token_count,
                   result, requests, usage_promise, passthrough, task, counts,
                   consumed, delivered, calls, previous>>

\* line 50: the iteration raises; the tools before it are already replaced
NormalizeRaises ==
    /\ tpc = "normalize"
    /\ ti < Len(tools)
    /\ Raises(tools[ti + 1])
    /\ tpc' = "threw"
    /\ UNCHANGED <<tools, input_tools, ti, passes, first_result, claude_tools>>
    /\ UNCHANGED <<messages, input_messages, stream, provider, adapted_messages,
                   system_prompts, previous_was_user, idx, pc, token_count,
                   result, requests, usage_promise, passthrough, task, counts,
                   consumed, delivered, calls, previous>>

\* line 61: return tools
NormalizeReturn ==
    /\ tpc = "normalize"
    /\ ti = Len(tools)
    /\ tpc' = "returned"
    /\ passes' = passes + 1
    /\ first_result' = IF passes = 0 THEN tools ELSE first_result
    /\ UNCHANGED <<tools, input_tools, ti, claude_tools>>
    /\ UNCHANGED <<messages, input_messages, stream, provider, adapted_messages,
                   system_prompts, previous_was_user, idx, pc, token_count,
                   result, requests, usage_promise, passthrough, task, counts,
                   consumed, delivered, calls, previous>>

\* line 16: the caller normalizes the array it got back
NormalizeAgain ==
    /\ tpc = "returned"
    /\ passes < MaxPasses
    /\ tpc' = "normalize"
    /\ ti' = 0
    /\ UNCHANGED <<tools, input_tools, passes, first_result, claude_tools>>
    /\ UNCHANGED <<messages, input_messages, stream, provider, adapted_messages,
                   system_prompts, previous_was_user, idx, pc, token_count,
                   result, requests, usage_promise, passthrough, task, counts,
                   consumed, delivered, calls, previous>>

\* lines 82-92: the caller converts the normalized array
MakeClaudeTools ==
    /\ tpc = "returned"
    /\ claude_tools' = make_claude_tools(tools)
    /\ tpc' = "projected"
    /\ UNCHANGED <<tools, input_tools, ti, passes, first_result>>
    /\ UNCHANGED <<messages, input_messages, stream, provider, adapted_messages,
                   system_prompts, previous_was_user, idx, pc, token_count,
                   result, requests, usage_promise, passthrough, task, counts,
                   consumed, delivered, calls, previous>>

\* the descriptors explored
WithParameters == Fn(Some("foo"), Some("d"), Some(SchemaA), Absent)
WithInputSchema == Fn(Some("foo"), Some("d"), Absent, Some(SchemaB))
WithEmptyDescription == Fn(Some("bar"), Some(""), Some(SchemaA), Absent)
WithNothing == NoFn
WithBothSchemas == Fn(Some("foo"), Absent, Some(SchemaA), Some(SchemaB))

Descriptors == {WithParameters, WithInputSchema, WithEmptyDescription,
                WithNothing, WithBothSchemas}

\* the descriptor itself is the tool
Bare(fn) == Tool(Absent, Absent, fn)
\* { type: 'function', function: fn }
Nested(fn) == Tool(Some("function"), Some(fn), NoFn)
\* both conventions at once
Conflicting ==
    Tool(Some("function"), Some(WithParameters),
         Fn(Some("top"), Absent, Absent, Some(SchemaB)))
\* { type: 'function', name: 'foo' }: no nested function
WithoutFunction == Tool(Some("function"), Absent, Fn(Some("foo"), Absent, Absent, Absent))
\* a bare descriptor with a type of its own
OtherType == Tool(Some("custom"), Absent, WithParameters)

Tools ==
    {Bare(fn) : fn \in Descriptors} \cup {Nested(fn) : fn \in Descriptors}
    \cup {Conflicting, WithoutFunction, OtherType}

\* complete is not in use
CompleteIdle ==
    /\ messages = <<>>
    /\ input_messages = <<>>
    /\ stream = FALSE
    /\ provider = ScenarioProvider
    /\ adapted_messages = <<>>
    /\ system_prompts = <<>>
    /\ previous_was_user = FALSE
    /\ idx = 0
    /\ pc = "idle"
    /\ token_count = NoCount
    /\ result = Pending
    /\ requests = <<>>
    /\ usage_promise = NoPromise
    /\ passthrough = NoStream
    /\ task = "none"
    /\ counts = ZeroCounts
    /\ consumed = 0
    /\ delivered = 0
    /\ calls = 0
    /\ previous = NoPrevious

\* line 16: normalize_tools_object is entered
InitTools ==
    /\ input_tools \in SeqsUpTo(Tools, MaxTools)
    /\ tools = input_tools
    /\ ti = 0
    /\ tpc = "normalize"
    /\ passes = 0
    /\ first_result = <<>>
    /\ claude_tools = <<>>
    /\ CompleteIdle

NextTools ==
    \/ NormalizeStep
    \/ NormalizeRaises
    \/ NormalizeReturn
    \/ NormalizeAgain
    \/ MakeClaudeTools

SpecTools == InitTools /\ [][NextTools]_vars

----------------------------------------------------------------------------
(* Properties.                                                             *)

\* the role line 72 gives a message
RoleOf(m) == IF m.role = NoRole THEN "user" ELSE m.role

\* the content parts of a message as the caller passed it: a bare string is
\* one text part, a single part is itself, an array is its elements
PartsOf(m) ==
    IF m.content.kind = "string"
    THEN <<[type |-> "text", text |-> m.content.str]>>
    ELSE m.content.parts

LoopFinished == pc # "adapt"

LastEntryIsUser ==
    /\ adapted_messages # <<>>
    /\ messages[adapted_messages[Len(adapted_messages)]].role = "user"

\* C1: in the message loop a user-role message (a defaulted one included) is
\* merged into the last entry of adapted_messages only when that entry has
\* role user; when adapted_messages is empty or its last entry is not a user
\* entry, the message is appended as a new entry.
C1_MergeOnlyIntoUser ==
    [][(/\ pc = "adapt"
        /\ idx < Len(messages)
        /\ idx' = idx + 1
        /\ RoleOf(messages[idx + 1]) = "user")
       => IF LastEntryIsUser
          THEN adapted_messages' = adapted_messages
          ELSE adapted_messages' = Append(adapted_messages, idx + 1)]_vars

\* C2: once the adaptation loop has finished, no two adjacent entries of
\* adapted_messages both have role user.
C2_NoAdjacentUsers ==
    LoopFinished =>
        \A k \in 1..(Len(adapted_messages) - 1) :
            ~(/\ messages[adapted_messages[k]].role = "user"
              /\ messages[adapted_messages[k + 1]].role = "user")

\* the loop is done on an input with two user messages in a row that follow
\* another entry
C2_Witness ==
    /\ pc = "check"
    /\ Len(adapted_messages) >= 2
    /\ \E k \in 1..(Len(input_messages) - 1) :
           /\ RoleOf(input_messages[k]) = "user"
           /\ RoleOf(input_messages[k + 1]) = "user"

SystemPartsOf(ms) ==
    Flatten([k \in 1..Len(ms) |->
                IF ms[k].role = "system" THEN PartsOf(ms[k]) ELSE <<>>])

\* C3: adapted_messages never holds an entry with role system, and
\* system_prompts is the concatenation, in message order and part order, of
\* the content parts of exactly the system-role messages consumed so far
\* (of all of them once the loop has finished).
C3_SystemSplit ==
    /\ \A k \in 1..Len(adapted_messages) :
           messages[adapted_messages[k]].role # "system"
    /\ system_prompts = SystemPartsOf(SubSeq(input_messages, 1, idx))
    /\ LoopFinished => system_prompts = SystemPartsOf(input_messages)

\* the loop is done on an input where a system message directly follows a
\* user message and another system message exists
C3_Witness ==
    /\ pc = "check"
    /\ Len(system_prompts) >= 3
    /\ adapted_messages # <<>>
    /\ \E k \in 1..(Len(input_messages) - 1) :
           /\ RoleOf(input_messages[k]) = "user"
           /\ input_messages[k + 1].role = "system"

TextDeltasOf(es) ==
    SelectSeq(es, LAMBDA e : e.type = "content_block_delta"
                             /\ e.delta.type = "text_delta")

\* C4: the lines written to the output stream are exactly one {text: delta}
\* record per text-delta event consumed so far, in the provider's order;
\* every other event writes nothing.
C4_OutputLines ==
    LET deltas == TextDeltasOf(SubSeq(provider.events, 1, consumed))
    IN  passthrough.lines =
            [k \in 1..Len(deltas) |->
                "{\"text\":\"" \o deltas[k].delta.text \o "\"}\n"]

\* the transcoder has finished a sequence with two different text deltas and
\* an event of another kind
C4_Witness ==
    /\ task = "done"
    /\ Len(passthrough.lines) = 2
    /\ passthrough.lines[1] # passthrough.lines[2]
    /\ consumed = 3

\* C5: the usage future is resolved at most once, only by the background
\* task, never before the provider event sequence has been fully consumed,
\* and exactly once when the background task has run to its end.
C5_ResolveOnce ==
    /\ usage_promise.resolves <= 1
    /\ usage_promise.resolves > 0 =>
           /\ task = "done"
           /\ usage_promise.state = "resolved"
           /\ consumed = Len(provider.events)
           /\ provider.ending = "done"
    /\ task = "done" => usage_promise.resolves = 1

\* the future is resolved after a sequence of several events
C5_Witness ==
    /\ usage_promise.state = "resolved"
    /\ Len(provider.events) >= 2

InputTokensOf(e) ==
    IF e.usage.present THEN e.usage.input_tokens
    ELSE e.message_usage.input_tokens

OutputTokensOf(e) ==
    IF e.usage.present THEN e.usage.output_tokens
    ELSE e.message_usage.output_tokens

TotalsOf(es) ==
    [input_tokens |-> SumSeq([k \in 1..Len(es) |-> InputTokensOf(es[k])]),
     output_tokens |-> SumSeq([k \in 1..Len(es) |-> OutputTokensOf(es[k])])]

\* C6: the usage totals start at 0; after any prefix of the provider events
\* each total is the sum over that prefix of the input_tokens / output_tokens
\* found in the event's usage field or, without one, in its message.usage
\* field, whatever the kind of the event; the future resolves with the sum
\* over all events.
C6_UsageTotals ==
    /\ counts = TotalsOf(SubSeq(provider.events, 1, consumed))
    /\ consumed = 0 => counts = [input_tokens |-> 0, output_tokens |-> 0]
    /\ usage_promise.state = "resolved" =>
           usage_promise.value = TotalsOf(provider.events)

\* the future is resolved with usage that came from two events that are not
\* text deltas
C6_Witness ==
    /\ usage_promise.state = "resolved"
    /\ usage_promise.value = [input_tokens |-> 2, output_tokens |-> 4]
    /\ passthrough.lines # <<>>

\* the length of the serialized payload of lines 91-92
PayloadLength ==
    LET parts(ps) ==
            2 + SumSeq([k \in 1..Len(ps) |-> 25 + ps[k].text.len])
              + (IF ps = <<>> THEN 0 ELSE Len(ps) - 1)
        entry(m) == 22 + Len(m.role) + parts(m.content.parts)
    IN  2 + SumSeq([k \in 1..Len(adapted_messages) |->
                       entry(messages[adapted_messages[k]])])
          + (IF adapted_messages = <<>> THEN 0 ELSE Len(adapted_messages) - 1)
          + parts(system_prompts)

\* C7: complete fails with max_tokens_exceeded if and only if the estimate,
\* the serialized length divided by 4, is strictly greater than the limit of
\* 10000, that is, if and only if the length is above 40000 characters; the
\* error carries the exact estimate as input_tokens and the limit as
\* max_tokens.
C7_BudgetBoundary ==
    pc \notin {"adapt", "check"} =>
        /\ result.kind = "threw" <=> PayloadLength > 4 * 10000
        /\ pc = "thrown" <=> result.kind = "threw"
        /\ result.kind = "threw" =>
               /\ result.error.code = "max_tokens_exceeded"
               /\ result.error.input_tokens.den = 4
               /\ result.error.input_tokens.rem \in 0..3
               /\ 4 * result.error.input_tokens.whole
                    + result.error.input_tokens.rem = PayloadLength
               /\ result.error.max_tokens = 10000
        /\ result.kind # "threw" =>
               4 * token_count.whole + token_count.rem = PayloadLength

\* the call failed on a payload one character above 4 x limit
C7_Witness ==
    /\ pc = "thrown"
    /\ PayloadLength = 4 * 10000 + 1

\* a payload of exactly 4 x limit characters passed the check
C7_WitnessAtLimit ==
    /\ pc = "dispatch"
    /\ PayloadLength = 4 * 10000

\* C8: when the budget check fails, with stream true or false, no provider
\* request has been or is ever issued, and no output stream, usage future or
\* background task exists.
C8_NothingStartedOnFailure ==
    result.kind = "threw" =>
        /\ pc = "thrown"
        /\ requests = <<>>
        /\ usage_promise.state = "none"
        /\ passthrough.state = "none"
        /\ task = "none"

\* a streaming call failed the budget check
C8_Witness ==
    /\ result.kind = "threw"
    /\ stream

\* a non-streaming call failed the budget check
C8_WitnessNonStreaming ==
    /\ result.kind = "threw"
    /\ ~stream

\* C9: a provider failure reaches the caller of complete: in the
\* non-streaming path the call is rejected with the provider's error, and in
\* the streaming path the failure of the request or of the event sequence is
\* delivered through what the caller holds (the call's outcome, the output
\* stream or the usage future).
C9_ProviderFailurePropagates ==
    /\ pc = "rejected" =>
           /\ result.kind = "rejected"
           /\ result.error = ProviderError
    /\ task = "failed" =>
           \/ result.kind = "rejected"
           \/ passthrough.state = "errored"
           \/ usage_promise.state = "rejected"

\* C10: a streaming call that passed the budget check returns its handle
\* without waiting for the provider: at the point of return the request is
\* outstanding, no event has been processed, the return is enabled whatever
\* the provider does, and the background task lives on after the return.
C10_ImmediateReturn ==
    /\ pc = "stream_started" =>
           /\ ENABLED ReturnHandle
           /\ task = "await_stream"
           /\ consumed = 0
           /\ passthrough.lines = <<>>
           /\ requests = <<"messages.stream">>
    /\ result.kind = "handle" => task # "none"

\* the handle has been returned while the provider has not answered
C10_Witness ==
    /\ result.kind = "handle"
    /\ pc = "returned"
    /\ task = "await_stream"

\* C11: message normalization leaves the caller's message objects as they
\* were: every message still has the content and the role it had when
\* complete was called.
C11_CallerMessagesUntouched == messages = input_messages

\* C17: the output stream is closed before the usage future is resolved, and
\* nothing is written to the output stream once it is closed: usage resolved
\* implies output closed, and a closed output stream stays as it is.
C17_ClosedBeforeResolved ==
    /\ [](usage_promise.state = "resolved" => passthrough.state = "ended")
    /\ [][passthrough.state = "ended" => passthrough' = passthrough]_vars

\* the future is resolved on a closed stream that carries lines
C17_Witness ==
    /\ usage_promise.state = "resolved"
    /\ passthrough.state = "ended"
    /\ passthrough.lines # <<>>

\* the stream is closed and the future not yet resolved
C17_WitnessBetween ==
    /\ passthrough.state = "ended"
    /\ usage_promise.state = "pending"

NonSystemPartsOf(ms) ==
    Flatten([k \in 1..Len(ms) |->
                IF ms[k].role = "system" THEN <<>> ELSE PartsOf(ms[k])])

\* C19: adaptation neither loses, duplicates nor reorders content: the
\* contents of the adapted_messages entries, concatenated in entry order, are
\* the content parts of the non-system messages consumed so far, in input
\* order (of all of them once the loop has finished), and the content of
\* every entry is a sequence.
C19_ContentConserved ==
    /\ \A k \in 1..Len(adapted_messages) :
           messages[adapted_messages[k]].content.kind = "array"
    /\ Flatten([k \in 1..Len(adapted_messages) |->
                   messages[adapted_messages[k]].content.parts])
         = NonSystemPartsOf(SubSeq(input_messages, 1, idx))
    /\ LoopFinished =>
           Flatten([k \in 1..Len(adapted_messages) |->
                       messages[adapted_messages[k]].content.parts])
             = NonSystemPartsOf(input_messages)

\* the loop is done, a message was merged into an earlier entry, and contents
\* of all three shapes took part
C19_Witness ==
    /\ pc = "check"
    /\ Len(adapted_messages) = 2
    /\ Len(input_messages) = 3
    /\ system_prompts = <<>>
    /\ {input_messages[k].content.kind : k \in 1..3}
         = {"string", "object", "array"}

\* C18: in a streamed session whose provider event sequence is finite and
\* raises no error, the output stream is eventually closed and the usage
\* future eventually resolved, whether or not a consumer reads the stream.
C18_EventuallyClosedAndResolved ==
    (/\ pc = "stream_started"
     /\ provider.request_ok
     /\ provider.ending = "done")
    ~> (/\ passthrough.state = "ended"
        /\ usage_promise.state = "resolved")

\* the session ended with several lines written and none of them read
C18_Witness ==
    /\ passthrough.state = "ended"
    /\ usage_promise.state = "resolved"
    /\ Len(passthrough.lines) >= 2
    /\ delivered = 0

\* C20: adaptation is repeatable: a second call of complete with the message
\* list the caller holds arrives at the same adapted_messages, the same
\* system_prompts and the same token estimate as the first call.
C20_Repeatable ==
    (calls >= 2 /\ pc \notin {"adapt", "check"}) =>
        /\ [k \in 1..Len(adapted_messages) |-> messages[adapted_messages[k]]]
             = previous.adapted_messages
        /\ system_prompts = previous.system_prompts
        /\ token_count = previous.token_count

----------------------------------------------------------------------------
(* Properties of normalize_tools_object and make_claude_tools.             *)

\* the tools the loop has replaced so far
Replaced == IF passes = 0 THEN 1..ti ELSE 1..Len(tools)

\* C12: normalize_tools_object is idempotent: where it succeeds, normalizing
\* what it returned gives, entry by entry, what it returned the first time.
C12_Idempotent ==
    passes >= 1 =>
        /\ Len(tools) = Len(first_result)
        /\ \A k \in 1..Len(tools) : tools[k] = first_result[k]

\* the array was normalized twice and the first pass changed its tools
C12_Witness ==
    /\ passes = 2
    /\ tpc = "returned"
    /\ Len(tools) = 2
    /\ tools[1] # input_tools[1]
    /\ tools[2] # input_tools[2]

\* the three accepted input shapes
IsBareWithInputSchema(t) ==
    /\ t.function = <<>>
    /\ t.type # <<"function">>
    /\ t.input_schema # <<>>
    /\ t.parameters = <<>>

IsNestedFunction(t) ==
    /\ t.type = <<"function">>
    /\ t.function # <<>>
    /\ t.input_schema = <<>>
    /\ t.parameters = <<>>
    /\ t.function[1].parameters # <<>>
    /\ t.function[1].input_schema = <<>>

IsBareWithParameters(t) ==
    /\ t.function = <<>>
    /\ t.type # <<"function">>
    /\ t.parameters # <<>>
    /\ t.input_schema = <<>>

IsAcceptedShape(t) ==
    IsBareWithInputSchema(t) \/ IsNestedFunction(t) \/ IsBareWithParameters(t)

\* the name, description and parameter schema an input tool of an accepted
\* shape states
StatedBy(t) ==
    IF IsNestedFunction(t)
    THEN [name |-> t.function[1].name,
          description |-> t.function[1].description,
          input_schema |-> t.function[1].parameters]
    ELSE [name |-> t.name,
          description |-> t.description,
          input_schema |-> IF IsBareWithInputSchema(t)
                           THEN t.input_schema ELSE t.parameters]

\* an empty string is dropped
EmptyDropped(field) == IF field = <<"">> THEN <<>> ELSE field

\* C13 as claimed: for each accepted input shape, the entry that
\* make_claude_tools(normalize_tools_object(X)) returns for a tool has the
\* name, description and input_schema the input tool states.
C13_ClaudeShapeLossless ==
    tpc = "projected" =>
        \A k \in 1..Len(input_tools) :
            IsAcceptedShape(input_tools[k]) =>
                claude_tools[k] = StatedBy(input_tools[k])

\* C13 as amended: the same, except that a name or description that is the
\* empty string is returned as undefined.
C13_ClaudeShapeLosslessButEmpty ==
    tpc = "projected" =>
        /\ Len(claude_tools) = Len(input_tools)
        /\ \A k \in 1..Len(input_tools) :
               IsAcceptedShape(input_tools[k]) =>
                   claude_tools[k] =
                       [name |-> EmptyDropped(StatedBy(input_tools[k]).name),
                        description |->
                            EmptyDropped(StatedBy(input_tools[k]).description),
                        input_schema |-> StatedBy(input_tools[k]).input_schema]

\* a nested function and a bare descriptor with input_schema were converted
C13_Witness ==
    /\ tpc = "projected"
    /\ passes = 1
    /\ Len(input_tools) = 2
    /\ IsNestedFunction(input_tools[1])
    /\ input_tools[1].function[1].description = <<"">>
    /\ IsBareWithInputSchema(input_tools[2])

\* the descriptor of a tool: the tool itself when it has an input_schema,
\* else its nested function when its type is 'function', else the tool itself
DescriptorOf(t) ==
    IF t.input_schema = <<>> /\ t.type = <<"function">> /\ t.function # <<>>
    THEN t.function[1]
    ELSE [name |-> t.name, description |-> t.description,
          parameters |-> t.parameters, input_schema |-> t.input_schema]

IsCanonicalFor(n, d) ==
    /\ n.type = <<"function">>
    /\ n.name = <<>> /\ n.description = <<>>
    /\ n.parameters = <<>> /\ n.input_schema = <<>>
    /\ Len(n.function) = 1
    /\ n.function[1].input_schema = <<>>
    /\ n.function[1].parameters =
           IF d.parameters # <<>> THEN d.parameters
           ELSE IF d.input_schema # <<>> THEN d.input_schema
           ELSE <<"{type:'object'}">>
    /\ n.function[1].name \in {<<>>, d.name}
    /\ n.function[1].description \in {<<>>, d.description}
    /\ d.name \notin {<<>>, <<"">>} => n.function[1].name = d.name
    /\ d.description \notin {<<>>, <<"">>} =>
           n.function[1].description = d.description

\* C14: what normalize_tools_object returns has the length and order of its
\* input, and every entry is exactly {type: 'function', function:
\* {parameters, name?, description?}} with parameters the descriptor's
\* parameters if present, else its input_schema, else {type: 'object'}, and
\* name / description only when the descriptor has them; while the loop runs
\* this holds of the tools already replaced and the others are untouched.
C14_CanonicalShape ==
    /\ Len(tools) = Len(input_tools)
    /\ \A k \in 1..Len(tools) :
           IF k \in Replaced
           THEN IsCanonicalFor(tools[k], DescriptorOf(input_tools[k]))
           ELSE tools[k] = input_tools[k]

\* the call returned two tools, one defaulted and one stating both schemas
C14_Witness ==
    /\ tpc = "returned"
    /\ passes = 1
    /\ Len(tools) = 2
    /\ tools[1].function[1].parameters = <<"{type:'object'}">>
    /\ input_tools[2].parameters # <<>>
    /\ input_tools[2].input_schema # <<>>

\* C15: a malformed or incomplete tool definition is never an error:
\* normalize_tools_object does not fail on any tool list.
C15_NeverAnError == tpc # "threw"

\* C16: a tool with both type 'function' and a nested function, and a
\* top-level input_schema, is normalized from its nested function: name,
\* description and parameters come from tool.function.
C16_NestedFunctionWins ==
    \A k \in Replaced :
        (/\ input_tools[k].type = <<"function">>
         /\ input_tools[k].function # <<>>
         /\ input_tools[k].input_schema # <<>>)
        => /\ tools[k].function[1].name = input_tools[k].function[1].name
           /\ tools[k].function[1].description
                = input_tools[k].function[1].description
           /\ tools[k].function[1].parameters
                = input_tools[k].function[1].parameters

====
